---- MODULE Spec2Model ----
(***************************************************************************)
(* Model of cmd/getcreds/main.go (keymaster client): one run of main():    *)
(* loadVerifyConfigFile, getUserInfoAndCreds, genKeyPair,                  *)
(* getCertFromTargetUrls (which drives getCertsFromServer and              *)
(* doCertRequest for each candidate URL) and the final write of the        *)
(* certificate file.  The program is sequential; pc is the position in it. *)
(***************************************************************************)
EXTENDS Integers, Sequences, FiniteSets, TLC

(* ---------------------------- bounds ----------------------------------- *)
\* longest list strings.Split(config.Base.Gen_Cert_URLS, ",") yields here
MaxCandidates == 2
\* most cookies one login response carries
MaxCookies == 2
\* most calls of genKeyPair in a row, where it is called on its own
MaxCalls == 2

(* ----------------------- program constants ----------------------------- *)
Mode0600 == 384
Mode0644 == 420
Mode0666 == 438
StatusOK == 200
ExitOK == 0
ExitFatal == 1
ExitPanic == 2
\* exitStatus while the process is still running
Running == -1

(* error values (Go: error); NoErr is the nil error *)
NoErr == "nil"
ErrTransport == "transport error"
ErrBadUrl == "parse error"
ErrNoCookies == "No cookies from login"
ErrFailedCreds == "Failed to get creds"
ErrNoCert == "Could not get cert from any url"

(* byte slices and file contents: kind, the candidate that produced it,    *)
(* the key pair it belongs to (none, that of an earlier run, this run's)   *)
NoKey == "none"
OldKey == "old"
NewKey == "new"
Data(kind, from, key) == [kind |-> kind, from |-> from, key |-> key]
\* the nil []byte
Nil == Data("nil", 0, NoKey)
\* a file that os.Create made or truncated and nothing was written to yet
Empty == Data("empty", 0, NoKey)
\* what is left of a file when a write to it fails part-way
Partial == Data("partial", 0, NoKey)

File(exists, mode, content) == [exists |-> exists, mode |-> mode, content |-> content]
NoFile == File(FALSE, 0, Nil)

(* ---------------------- permission arithmetic -------------------------- *)
RECURSIVE BitAndNot(_, _, _)
\* a &^ b on the low n bits
BitAndNot(a, b, n) ==
    IF n = 0 THEN 0
    ELSE (IF a % 2 = 1 /\ b % 2 = 0 THEN 1 ELSE 0)
         + 2 * BitAndNot(a \div 2, b \div 2, n - 1)

\* the mode open(2) gives a file it creates: perm &^ umask
CreateMode(perm, mask) == BitAndNot(perm, mask, 9)

\* group or other has the read bit (040 or 004)
GroupOrWorldReadable(mode) == (mode \div 32) % 2 = 1 \/ (mode \div 4) % 2 = 1
\* no bit outside the owner's rw- (0600)
OwnerReadWriteOnly(mode) == BitAndNot(mode, Mode0600, 9) = 0

\* process umasks considered: 022 and 077
Umasks == {18, 63}

VARIABLES
    pc,          \* position in main() and its callees
    exitStatus,  \* Running, or the status the process ended with
    fatalErr,    \* the error log.Fatal or panic reported (NoErr: none)
    fs,          \* the files <prefix>, <prefix>.pub, <prefix>-cert.pub
    umask,       \* the process umask
    privCreated, \* os.Create(privateKeyPath) has succeeded in this run
    certOps,     \* file operations main performed on <prefix>-cert.pub
    keyOps,      \* file operations genKeyPair attempted on the key files
    config,      \* what loadVerifyConfigFile found the config file to be
    calls,       \* number of times genKeyPair was entered
    password,    \* the password []byte held by main
    signer,      \* the rsa key genKeyPair made (NoKey before)
    targetUrls,  \* number of entries of the candidate list
    server,      \* how each candidate entry and its server behave in this run
    idx,         \* range index of the loop in getCertFromTargetUrls (1-based)
    success,     \* getCertFromTargetUrls: success
    cert,        \* getCertFromTargetUrls: cert; after the call, main's cert
    enrollErr,   \* the error getCertFromTargetUrls returned to main
    loginCookies,\* getCertsFromServer: loginResp.Cookies()
    x509Cert,    \* getCertsFromServer: x509Cert
    sshCert,     \* getCertsFromServer: sshCert
    err,         \* getCertsFromServer: err (as returned once the call ends)
    sent,        \* every HTTP request sent, in order
    recv,        \* the answer to each request of sent, same index
    inflight,    \* number of requests sent and not yet answered
    successLogged \* main logged "Success"

vars == << pc, exitStatus, fatalErr, fs, umask, privCreated, certOps, keyOps,
           config, calls, password, signer,
           targetUrls, server, idx, success, cert, enrollErr, loginCookies,
           x509Cert, sshCert, err, sent, recv, inflight, successLogged >>

fsVars == << fs, privCreated, certOps, keyOps >>
mainVars == << config, calls, password, signer, targetUrls, successLogged >>
loopVars == << idx, success, cert, enrollErr >>
attemptVars == << loginCookies, x509Cert, sshCert, err >>
netVars == << sent, recv, inflight >>

(* ---------------------------- servers ---------------------------------- *)
\* what a request meets: a URL http.NewRequest rejects (an entry such as
\* "127.0.0.1:443" or " https://b", whose first path segment holds a colon),
\* no response at all, a non-200 status, or a 200
LoginOutcomes == {"badurl", "err", "s403", "s200nocookie", "s200"}
CertOutcomes == {"err", "s403", "s200"}
Behaviour == [login : LoginOutcomes, x509 : CertOutcomes, ssh : CertOutcomes]
\* one behaviour per way the run can tell candidates apart: a candidate whose
\* login yields no session is never asked for a certificate
Behaviours ==
    { b \in Behaviour : b.login # "s200" => (b.x509 = "s200" /\ b.ssh = "s200") }

Cookie(c, j) == << c, j >>
\* the cookies of a login response of candidate c carrying n cookies
IssuedCookies(c, n) == [ j \in 1..n |-> Cookie(c, j) ]

Request(kind, to, cookies) == [kind |-> kind, to |-> to, cookies |-> cookies]
Response(doErr, status, cookies, body) ==
    [doErr |-> doErr, status |-> status, cookies |-> cookies, body |-> body]

\* the answer of a candidate behaving as `outcome` to a request of `kind`,
\* n being the number of cookies a successful login sets
Answer(outcome, kind, c, n, key) ==
    CASE outcome = "err" -> Response(ErrTransport, 0, << >>, Nil)
      [] outcome = "s403" -> Response(NoErr, 403, << >>, Data("errbody", c, NoKey))
      [] outcome = "s200nocookie" ->
            Response(NoErr, StatusOK, << >>, Data("loginbody", c, NoKey))
      [] outcome = "s200" /\ kind = "login" ->
            Response(NoErr, StatusOK, IssuedCookies(c, n), Data("loginbody", c, NoKey))
      [] outcome = "s200" /\ kind = "x509" ->
            Response(NoErr, StatusOK, << >>, Data("x509cert", c, key))
      [] outcome = "s200" /\ kind = "ssh" ->
            Response(NoErr, StatusOK, << >>, Data("sshcert", c, key))

(* ------------------------------ Init ----------------------------------- *)
PriorPriv == { NoFile, File(TRUE, Mode0600, Data("privkey", 0, OldKey)),
               File(TRUE, Mode0644, Data("privkey", 0, OldKey)) }
PriorPub == { NoFile, File(TRUE, Mode0644, Data("pubkey", 0, OldKey)) }
PriorCert == { NoFile, File(TRUE, Mode0644, Data("sshcert", 0, OldKey)) }

Init ==
    /\ pc = "loadConfig"
    /\ exitStatus = Running
    /\ fatalErr = NoErr
    /\ \E p \in PriorPriv, q \in PriorPub, c \in PriorCert :
          fs = [priv |-> p, pub |-> q, cert |-> c]
    /\ umask \in Umasks
    /\ privCreated = FALSE
    /\ certOps = << >>
    /\ keyOps = << >>
    /\ config = "unread"
    /\ calls = 0
    /\ password = "unset"
    /\ signer = NoKey
    /\ targetUrls = 0
    /\ server = << >>
    /\ idx = 0
    /\ success = FALSE
    /\ cert = Nil
    /\ enrollErr = NoErr
    /\ loginCookies = << >>
    /\ x509Cert = Nil
    /\ sshCert = Nil
    /\ err = NoErr
    /\ sent = << >>
    /\ recv = << >>
    /\ inflight = 0
    /\ successLogged = FALSE

\* log.Fatal(e) and panic(e) end the process with a status and report e
Exit(status, e) ==
    /\ pc' = "exit"
    /\ exitStatus' = status
    /\ fatalErr' = e

Continue(next) ==
    /\ pc' = next
    /\ UNCHANGED << exitStatus, fatalErr >>

(* --------------------------- file system ------------------------------- *)
\* os.Remove(name): the file is gone if it was there and the call succeeds
osRemove(f, ok) == IF f.exists /\ ok THEN NoFile ELSE f

\* os.OpenFile(name, O_CREATE|O_TRUNC, perm): an existing file is truncated
\* and keeps its mode, a new one gets perm &^ umask
osOpenTrunc(f, perm, mask) ==
    IF f.exists THEN File(TRUE, f.mode, Empty)
    ELSE File(TRUE, CreateMode(perm, mask), Empty)

\* os.Create(name) is OpenFile(name, O_RDWR|O_CREATE|O_TRUNC, 0666)
osCreate(f, mask) == osOpenTrunc(f, Mode0666, mask)

\* a Chmod that leaves the mode as it is
osChmodNoop(f, mode) == f

\* (*File).Chmod(mode)
osChmod(f, mode) == File(f.exists, mode, f.content)

\* a write of data to an open file, which may stop part-way
osWrite(f, data, ok) == File(f.exists, f.mode, IF ok THEN data ELSE Partial)

WriteOutcomes == {"ok", "openfail", "writefail"}
\* ioutil.WriteFile(name, data, perm): open with O_CREATE|O_TRUNC, write
ioutilWriteFile(f, data, perm, mask, outcome) ==
    CASE outcome = "openfail" -> f
      [] outcome = "writefail" -> osWrite(osOpenTrunc(f, perm, mask), data, FALSE)
      [] outcome = "ok" -> osWrite(osOpenTrunc(f, perm, mask), data, TRUE)

(* ------------------------------ main ----------------------------------- *)
ConfigOutcomes == {"missing", "unreadable", "unparsable", "nourls", "ok"}

\* a validation without the check for an empty Gen_Cert_URLS
loadVerifyConfigFileNoUrlCheck(c) ==
    CASE c = "missing" -> "mising config file failure"
      [] c = "unreadable" -> "cannot read config file"
      [] c = "unparsable" -> "Cannot parse config file"
      [] c \in {"nourls", "ok"} -> NoErr

\* loadVerifyConfigFile: the error it returns for a config file in state c
loadVerifyConfigFile(c) ==
    CASE c = "missing" -> "mising config file failure"
      [] c = "unreadable" -> "cannot read config file"
      [] c = "unparsable" -> "Cannot parse config file"
      [] c = "nourls" -> "Invalid Config file... no place get the certs"
      [] c = "ok" -> NoErr

\* main, lines 367-370; a valid config has a non-empty Gen_Cert_URLS, which
\* strings.Split (line 388) cuts into at least one entry
LoadConfig ==
    /\ pc = "loadConfig"
    /\ \E c \in ConfigOutcomes, n \in 1..MaxCandidates :
          /\ config' = c
          /\ IF loadVerifyConfigFile(c) # NoErr
             THEN /\ Exit(ExitPanic, loadVerifyConfigFile(c))
                  /\ UNCHANGED targetUrls
             ELSE /\ Continue("getCreds")
                  /\ targetUrls' = n
    /\ UNCHANGED << fsVars, umask, calls, password, signer, server, loopVars,
                    attemptVars, netVars, successLogged >>

\* main, lines 371-380: getUserInfoAndCreds fails (user.Current or
\* gopass.GetPasswd) or hands main the password
GetUserInfoAndCreds ==
    /\ pc = "getCreds"
    /\ \E ok \in BOOLEAN :
          IF ok
          THEN /\ Continue("genKey")
               /\ password' = "held"
          ELSE /\ Exit(ExitFatal, "cannot get user or password")
               /\ UNCHANGED password
    /\ UNCHANGED << fsVars, umask, config, calls, signer, targetUrls, server,
                    loopVars, attemptVars, netVars, successLogged >>

(* ---------------------------- genKeyPair ------------------------------- *)
\* Every error genKeyPair returns reaches log.Fatal at main, line 386.
\* line 55: rsa.GenerateKey
GenerateKey ==
    /\ pc = "genKey"
    /\ \E ok \in BOOLEAN :
          IF ok
          THEN /\ Continue("rmPriv")
               /\ signer' = NewKey
          ELSE /\ Exit(ExitFatal, "rsa.GenerateKey")
               /\ UNCHANGED signer
    /\ calls' = calls + 1
    /\ UNCHANGED << fsVars, umask, config, password, targetUrls, server,
                    loopVars, attemptVars, netVars, successLogged >>

\* line 64: os.Remove(privateKeyPath), its result ignored
RemovePrivateKey ==
    /\ pc = "rmPriv"
    /\ \E ok \in BOOLEAN : fs' = [fs EXCEPT !.priv = osRemove(@, ok)]
    /\ keyOps' = Append(keyOps, "remove priv")
    /\ Continue("rmPub")
    /\ UNCHANGED << umask, privCreated, certOps, mainVars, server, loopVars,
                    attemptVars, netVars >>

\* line 65: os.Remove(pubKeyPath), its result ignored
RemovePublicKey ==
    /\ pc = "rmPub"
    /\ \E ok \in BOOLEAN : fs' = [fs EXCEPT !.pub = osRemove(@, ok)]
    /\ keyOps' = Append(keyOps, "remove pub")
    /\ Continue("createPriv")
    /\ UNCHANGED << umask, privCreated, certOps, mainVars, server, loopVars,
                    attemptVars, netVars >>

\* lines 68-73: os.Create(privateKeyPath)
CreatePrivateKey ==
    /\ pc = "createPriv"
    /\ \E ok \in BOOLEAN :
          IF ok
          THEN /\ Continue("chmodPriv")
               /\ fs' = [fs EXCEPT !.priv = osCreate(@, umask)]
               /\ privCreated' = TRUE
          ELSE /\ Exit(ExitFatal, "os.Create")
               /\ UNCHANGED << fs, privCreated >>
    /\ keyOps' = Append(keyOps, "create priv")
    /\ UNCHANGED << umask, certOps, mainVars, server, loopVars, attemptVars,
                    netVars >>

\* lines 74-78: privateKeyFile.Chmod(0600)
ChmodPrivateKey ==
    /\ pc = "chmodPriv"
    /\ \E ok \in BOOLEAN :
          IF ok
          THEN /\ Continue("encodePriv")
               /\ fs' = [fs EXCEPT !.priv = osChmod(@, Mode0600)]
          ELSE /\ Exit(ExitFatal, "Chmod")
               /\ UNCHANGED fs
    /\ keyOps' = Append(keyOps, "chmod priv")
    /\ UNCHANGED << umask, privCreated, certOps, mainVars, server, loopVars,
                    attemptVars, netVars >>

\* lines 79-82: pem.Encode(privateKeyFile, privateKeyPEM)
EncodePrivateKey ==
    /\ pc = "encodePriv"
    /\ \E ok \in BOOLEAN :
          /\ fs' = [fs EXCEPT !.priv = osWrite(@, Data("privkey", 0, signer), ok)]
          /\ IF ok THEN Continue("writePub") ELSE Exit(ExitFatal, "pem.Encode")
    /\ keyOps' = Append(keyOps, "write priv")
    /\ UNCHANGED << umask, privCreated, certOps, mainVars, server, loopVars,
                    attemptVars, netVars >>

\* lines 85-89: ioutil.WriteFile(pubKeyPath, ssh.MarshalAuthorizedKey(pub), 0644)
\* (ssh.NewPublicKey does not fail on an *rsa.PublicKey)
WritePublicKey ==
    /\ pc = "writePub"
    /\ \E o \in WriteOutcomes :
          /\ fs' = [fs EXCEPT !.pub =
                       ioutilWriteFile(@, Data("pubkey", 0, signer), Mode0644, umask, o)]
          /\ IF o = "ok" THEN Continue("enroll") ELSE Exit(ExitFatal, "WriteFile")
    /\ keyOps' = Append(keyOps, "write pub")
    /\ UNCHANGED << umask, privCreated, certOps, mainVars, server, loopVars,
                    attemptVars, netVars >>

(* ------------------------ getCertsFromServer --------------------------- *)
\* lines 235-251: the login step ends the call early on a transport error,
\* on a status other than 200 and on a response without cookies
loginReturns(resp) ==
    \/ resp.doErr # NoErr
    \/ resp.status # StatusOK
    \/ Len(resp.cookies) < 1

\* early returns that lose the error of client.Do
loginErrLost(resp) ==
    IF resp.status = StatusOK /\ Len(resp.cookies) < 1 THEN ErrNoCookies ELSE NoErr

\* the err those early returns hand back: line 240 returns the transport
\* error, line 245 returns err as client.Do left it (nil, a response having
\* arrived), line 250 returns a new error
loginErr(resp) ==
    IF resp.doErr # NoErr THEN resp.doErr
    ELSE IF resp.status # StatusOK THEN resp.doErr
    ELSE IF Len(resp.cookies) < 1 THEN ErrNoCookies
    ELSE NoErr

\* a request that loses the first of the cookies it was given
addCookiesDropFirst(authCookies) == Tail(authCookies)

\* doCertRequest, lines 201-204: req.AddCookie for each of authCookies
addCookies(authCookies) == authCookies

\* a doCertRequest that reads the body whatever the status
doCertRequestIgnoresStatus(resp) ==
    IF resp.doErr # NoErr THEN << Nil, resp.doErr >>
    ELSE << resp.body, NoErr >>

\* doCertRequest, lines 205-216: ([]byte, error) for the answer to the
\* request; line 214 returns err as client.Do left it (nil)
doCertRequest(resp) ==
    IF resp.doErr # NoErr THEN << Nil, resp.doErr >>
    ELSE IF resp.status # StatusOK THEN << Nil, resp.doErr >>
    ELSE << resp.body, NoErr >>

\* a loop that runs one entry past the end of the list
LoopHeadOffByOne(i) == IF i <= targetUrls + 1 THEN "login" ELSE "afterLoop"

\* line 288: the range loop takes entry i, or ends
LoopHead(i) == IF i <= targetUrls THEN "login" ELSE "afterLoop"

\* main, line 388, and getCertFromTargetUrls, lines 285-288.  From here on
\* the run meets the candidates' servers; server records how each answers.
StartEnroll ==
    /\ pc = "enroll"
    /\ server' \in [1..targetUrls -> Behaviours]
    /\ idx' = 1
    /\ success' = FALSE
    /\ cert' = Nil
    /\ Continue(LoopHead(1))
    /\ UNCHANGED << fsVars, umask, mainVars, enrollErr, attemptVars, netVars >>

\* lines 327, 223-234: getCertsFromServer is entered and posts the login,
\* unless http.NewRequest rejects loginUrl (lines 228-232)
SendLogin ==
    /\ pc = "login"
    /\ loginCookies' = << >>
    /\ x509Cert' = Nil
    /\ sshCert' = Nil
    /\ IF server[idx].login = "badurl"
       THEN /\ err' = ErrBadUrl
            /\ Continue("return")
            /\ UNCHANGED << sent, inflight >>
       ELSE /\ err' = NoErr
            /\ sent' = Append(sent, Request("login", idx, << >>))
            /\ inflight' = inflight + 1
            /\ Continue("loginWait")
    /\ UNCHANGED << fsVars, umask, mainVars, server, loopVars, recv >>

\* lines 234-252: client.Do returns
ReceiveLogin ==
    /\ pc = "loginWait"
    /\ \E n \in 1..MaxCookies :
          LET resp == Answer(server[idx].login, "login", idx, n, signer) IN
          /\ recv' = Append(recv, resp)
          /\ IF loginReturns(resp)
             THEN /\ err' = loginErr(resp)
                  /\ Continue("return")
                  /\ UNCHANGED loginCookies
             ELSE /\ loginCookies' = resp.cookies
                  /\ Continue("x509")
                  /\ UNCHANGED err
    /\ inflight' = inflight - 1
    /\ UNCHANGED << fsVars, umask, mainVars, server, loopVars, x509Cert,
                    sshCert, sent >>

\* lines 254-263 and doCertRequest, lines 197-205: the x509 request
SendX509 ==
    /\ pc = "x509"
    /\ sent' = Append(sent, Request("x509", idx, addCookies(loginCookies)))
    /\ inflight' = inflight + 1
    /\ Continue("x509Wait")
    /\ UNCHANGED << fsVars, umask, mainVars, server, loopVars, attemptVars, recv >>

\* doCertRequest, lines 205-216, and lines 263-266
ReceiveX509 ==
    /\ pc = "x509Wait"
    /\ LET resp == Answer(server[idx].x509, "x509", idx, 0, signer)
           got == doCertRequest(resp) IN
          /\ recv' = Append(recv, resp)
          /\ err' = got[2]
          /\ IF got[2] # NoErr
             THEN /\ x509Cert' = Nil
                  /\ Continue("return")
             ELSE /\ x509Cert' = got[1]
                  /\ Continue("ssh")
    /\ inflight' = inflight - 1
    /\ UNCHANGED << fsVars, umask, mainVars, server, loopVars, loginCookies,
                    sshCert, sent >>

\* lines 268-275 and doCertRequest, lines 197-205: the ssh request
SendSSH ==
    /\ pc = "ssh"
    /\ sent' = Append(sent, Request("ssh", idx, addCookies(loginCookies)))
    /\ inflight' = inflight + 1
    /\ Continue("sshWait")
    /\ UNCHANGED << fsVars, umask, mainVars, server, loopVars, attemptVars, recv >>

\* doCertRequest, lines 205-216, and lines 275-281
ReceiveSSH ==
    /\ pc = "sshWait"
    /\ LET resp == Answer(server[idx].ssh, "ssh", idx, 0, signer)
           got == doCertRequest(resp) IN
          /\ recv' = Append(recv, resp)
          /\ err' = got[2]
          /\ IF got[2] # NoErr
             THEN /\ sshCert' = Nil
                  /\ x509Cert' = Nil
             ELSE /\ sshCert' = got[1]
                  /\ UNCHANGED x509Cert
    /\ inflight' = inflight - 1
    /\ Continue("return")
    /\ UNCHANGED << fsVars, umask, mainVars, server, loopVars, loginCookies, sent >>

(* ----------------------- getCertFromTargetUrls ------------------------- *)
\* a loop that tries the same entry again after an error
AttemptRetries ==
    /\ pc = "return"
    /\ IF err # NoErr
       THEN /\ Continue(LoopHead(idx))
            /\ UNCHANGED << idx, success, cert >>
       ELSE /\ cert' = sshCert
            /\ success' = TRUE
            /\ Continue("afterLoop")
            /\ UNCHANGED idx
    /\ UNCHANGED << fsVars, umask, mainVars, server, enrollErr, attemptVars,
                    netVars >>

\* lines 327-336: an error moves on to the next entry, anything else is
\* taken as this entry's certificate and ends the loop
AttemptReturns ==
    /\ pc = "return"
    /\ IF err # NoErr
       THEN /\ idx' = idx + 1
            /\ Continue(LoopHead(idx + 1))
            /\ UNCHANGED << success, cert >>
       ELSE /\ cert' = sshCert
            /\ success' = TRUE
            /\ Continue("afterLoop")
            /\ UNCHANGED idx
    /\ UNCHANGED << fsVars, umask, mainVars, server, enrollErr, attemptVars,
                    netVars >>

\* lines 338-344
ReturnFromTargetUrls ==
    /\ pc = "afterLoop"
    /\ IF ~success
       THEN /\ cert' = Nil
            /\ enrollErr' = ErrFailedCreds
       ELSE /\ enrollErr' = NoErr
            /\ UNCHANGED cert
    /\ Continue("checkCert")
    /\ UNCHANGED << fsVars, umask, mainVars, server, idx, success, attemptVars,
                    netVars >>

(* ------------------------- main, after enroll -------------------------- *)
\* lines 389-396
CheckCert ==
    /\ pc = "checkCert"
    /\ IF enrollErr # NoErr
       THEN /\ Exit(ExitFatal, enrollErr)
            /\ UNCHANGED successLogged
       ELSE IF cert = Nil
       THEN /\ Exit(ExitFatal, ErrNoCert)
            /\ UNCHANGED successLogged
       ELSE /\ successLogged' = TRUE
            /\ Continue("rmCert")
    /\ UNCHANGED << fsVars, umask, config, calls, password, signer, targetUrls,
                    server, loopVars, attemptVars, netVars >>

\* line 401: os.Remove(certPath), its result ignored
RemoveCert ==
    /\ pc = "rmCert"
    /\ \E ok \in BOOLEAN :
          /\ fs' = [fs EXCEPT !.cert = osRemove(@, ok)]
          /\ certOps' = Append(certOps, "remove")
    /\ Continue("writeCert")
    /\ UNCHANGED << umask, privCreated, keyOps, mainVars, server, loopVars,
                    attemptVars, netVars >>

\* lines 402-404: ioutil.WriteFile(certPath, cert, 0644); err is assigned
\* and main returns
WriteCert ==
    /\ pc = "writeCert"
    /\ \E o \in WriteOutcomes :
          /\ fs' = [fs EXCEPT !.cert = ioutilWriteFile(@, cert, Mode0644, umask, o)]
          /\ certOps' = Append(certOps, IF o = "ok" THEN "write" ELSE "writefail")
    /\ pc' = "exit"
    /\ exitStatus' = ExitOK
    /\ UNCHANGED << fatalErr, umask, privCreated, keyOps, mainVars, server,
                    loopVars, attemptVars, netVars >>

Next ==
    \/ LoadConfig
    \/ GetUserInfoAndCreds
    \/ GenerateKey
    \/ RemovePrivateKey
    \/ RemovePublicKey
    \/ CreatePrivateKey
    \/ ChmodPrivateKey
    \/ EncodePrivateKey
    \/ WritePublicKey
    \/ StartEnroll
    \/ SendLogin
    \/ ReceiveLogin
    \/ SendX509
    \/ ReceiveX509
    \/ SendSSH
    \/ ReceiveSSH
    \/ AttemptReturns
    \/ ReturnFromTargetUrls
    \/ CheckCert
    \/ RemoveCert
    \/ WriteCert

Spec == Init /\ [][Next]_vars

(* ------------- getCertFromTargetUrls called on its own ----------------- *)
\* The state in which a caller that holds a key pair and a password calls
\* getCertFromTargetUrls with a list of any length, the empty one included
\* (main itself never passes an empty list).
InitEnroll ==
    /\ pc = "enroll"
    /\ exitStatus = Running
    /\ fatalErr = NoErr
    /\ umask \in Umasks
    /\ \E c \in PriorCert :
          fs = [priv |-> File(TRUE, Mode0600, Data("privkey", 0, NewKey)),
                pub |-> File(TRUE, CreateMode(Mode0644, umask), Data("pubkey", 0, NewKey)),
                cert |-> c]
    /\ privCreated = TRUE
    /\ certOps = << >>
    /\ keyOps = << >>
    /\ config = "ok"
    /\ calls = 1
    /\ password = "held"
    /\ signer = NewKey
    /\ targetUrls \in 0..MaxCandidates
    /\ server = << >>
    /\ idx = 0
    /\ success = FALSE
    /\ cert = Nil
    /\ enrollErr = NoErr
    /\ loginCookies = << >>
    /\ x509Cert = Nil
    /\ sshCert = Nil
    /\ err = NoErr
    /\ sent = << >>
    /\ recv = << >>
    /\ inflight = 0
    /\ successLogged = FALSE

NextEnroll ==
    \/ StartEnroll
    \/ SendLogin
    \/ ReceiveLogin
    \/ SendX509
    \/ ReceiveX509
    \/ SendSSH
    \/ ReceiveSSH
    \/ AttemptReturns
    \/ ReturnFromTargetUrls

SpecEnroll == InitEnroll /\ [][NextEnroll]_vars

\* client.Do always returns (the client has a 5 s timeout, line 226) and the
\* program runs on: no step of the call is postponed forever
FairEnroll == SpecEnroll /\ WF_vars(NextEnroll)

(* ------------------- genKeyPair called on its own ---------------------- *)
\* genKeyPair is called, for any files at the destination path, and after a
\* successful return called again on the same path.
InitKeyGen ==
    /\ pc = "genKey"
    /\ exitStatus = Running
    /\ fatalErr = NoErr
    /\ \E p \in PriorPriv, q \in PriorPub, c \in PriorCert :
          fs = [priv |-> p, pub |-> q, cert |-> c]
    /\ umask \in Umasks
    /\ privCreated = FALSE
    /\ certOps = << >>
    /\ keyOps = << >>
    /\ config = "ok"
    /\ calls = 0
    /\ password = "held"
    /\ signer = NoKey
    /\ targetUrls = 1
    /\ server = << >>
    /\ idx = 0
    /\ success = FALSE
    /\ cert = Nil
    /\ enrollErr = NoErr
    /\ loginCookies = << >>
    /\ x509Cert = Nil
    /\ sshCert = Nil
    /\ err = NoErr
    /\ sent = << >>
    /\ recv = << >>
    /\ inflight = 0
    /\ successLogged = FALSE

\* genKeyPair has returned without error
KeyPairReturned == pc = "enroll"

\* the caller calls genKeyPair(privateKeyPath) once more
CallGenKeyPairAgain ==
    /\ KeyPairReturned
    /\ calls < MaxCalls
    /\ Continue("genKey")
    /\ UNCHANGED << fsVars, umask, mainVars, server, loopVars, attemptVars,
                    netVars >>

NextKeyGen ==
    \/ GenerateKey
    \/ RemovePrivateKey
    \/ RemovePublicKey
    \/ CreatePrivateKey
    \/ ChmodPrivateKey
    \/ EncodePrivateKey
    \/ WritePublicKey
    \/ CallGenKeyPairAgain

SpecKeyGen == InitKeyGen /\ [][NextKeyGen]_vars

(* ======================================================================= *)
(* Properties                                                              *)
(* ======================================================================= *)
\* getCertFromTargetUrls has just returned to main: cert and enrollErr hold
\* what it returned, idx the entry the loop stopped at
EnrollReturned == pc = "checkCert"
Exited == pc = "exit"
\* main reached getCertFromTargetUrls in this run
Enrolled == DOMAIN server # {}

IsLogin(r) == r.kind = "login"
IsCertgen(r) == r.kind \in {"x509", "ssh"}
\* the candidates the login requests went to, in the order they were sent
LoginTargets ==
    LET logins == SelectSeq(sent, IsLogin)
    IN  [ j \in 1..Len(logins) |-> logins[j].to ]
UpTo(k) == [ j \in 1..k |-> j ]

\* candidate c fails in one of the ways a candidate can fail once it is
\* contacted: login transport error, login status other than 200, login 200
\* without cookies, or a login that works followed by a failed ssh certgen
FailsWhenContacted(c) ==
    \/ server[c].login \in {"err", "s403", "s200nocookie"}
    \/ server[c].login = "s200" /\ server[c].ssh \in {"err", "s403"}
\* candidate c answers every request with a 200 (and cookies at login)
Healthy(c) ==
    server[c].login = "s200" /\ server[c].x509 = "s200" /\ server[c].ssh = "s200"
\* the loop stopped at candidate c and took its result as the certificate
StoppedWithSuccessAt(c) == success /\ idx = c
\* after candidate c the controller went on: to the login of c+1, or, c being
\* the last, to the exhausted outcome
AdvancedPast(c) ==
    IF c < targetUrls
    THEN \E r \in 1..Len(sent) : IsLogin(sent[r]) /\ sent[r].to = c + 1
    ELSE ~success /\ enrollErr = ErrFailedCreds

\* C1: when candidate k is the only one that works and the others fail in
\* one of the listed ways, login requests go to 1, 2, ..., k in that order
\* and no request of any kind goes to k+1..N.
C1_ContactsOneToKInOrder ==
    EnrollReturned =>
        \A k \in 1..targetUrls :
            ( /\ Healthy(k)
              /\ \A c \in 1..targetUrls : c # k => FailsWhenContacted(c) )
            => /\ LoginTargets = UpTo(k)
               /\ \A r \in 1..Len(sent) : sent[r].to <= k

\* C2: when no candidate yields an ssh certificate, getCertFromTargetUrls
\* returns a non-nil error, and only after a login request went to every one
\* of the N candidates in list order.
C2_ExhaustedAfterAllTried ==
    ( /\ EnrollReturned
      /\ \A c \in 1..targetUrls : FailsWhenContacted(c) )
    => /\ enrollErr # NoErr
       /\ LoginTargets = UpTo(targetUrls)

\* C3: a login response with a status other than 200, or a 200 without
\* cookies, is a failure of that candidate: no certgen request goes to it,
\* the controller does not report success for it, and it goes on to the next
\* candidate (or to the exhausted outcome).
C3_BadLoginIsCandidateFailure ==
    EnrollReturned =>
        \A r \in 1..Len(recv) :
            ( /\ IsLogin(sent[r])
              /\ recv[r].doErr = NoErr
              /\ (recv[r].status # StatusOK \/ Len(recv[r].cookies) = 0) )
            => /\ \A q \in 1..Len(sent) :
                     IsCertgen(sent[q]) => sent[q].to # sent[r].to
               /\ ~StoppedWithSuccessAt(sent[r].to)
               /\ AdvancedPast(sent[r].to)

\* C4: a failed ssh certgen request (non-200 status or transport failure)
\* after a successful login is a failure of that candidate: the controller
\* does not stop with success there and goes on to the next candidate (or to
\* the exhausted outcome).
C4_FailedSshIsCandidateFailure ==
    EnrollReturned =>
        \A r \in 1..Len(recv) :
            ( /\ sent[r].kind = "ssh"
              /\ (recv[r].doErr # NoErr \/ recv[r].status # StatusOK) )
            => /\ ~StoppedWithSuccessAt(sent[r].to)
               /\ AdvancedPast(sent[r].to)

\* C5: the x509 request is best-effort: a candidate that is logged into with
\* success and whose ssh certgen would return 200 succeeds and its ssh
\* certificate is returned, whatever the x509 request does.
C5_X509IsBestEffort ==
    EnrollReturned =>
        \A r \in 1..Len(recv) :
            ( /\ IsLogin(sent[r])
              /\ server[sent[r].to].login = "s200"
              /\ server[sent[r].to].ssh = "s200" )
            => /\ StoppedWithSuccessAt(sent[r].to)
               /\ enrollErr = NoErr
               /\ cert = Data("sshcert", sent[r].to, signer)

\* C6: when getCertFromTargetUrls returns without error, the certificate is
\* the body of a 200 answer to the ssh certgen request sent to the candidate
\* the loop stopped at; it is never nil.
C6_SuccessCarriesSshBody ==
    (EnrollReturned /\ enrollErr = NoErr) =>
        /\ cert # Nil
        /\ \E r \in 1..Len(recv) :
              /\ sent[r].kind = "ssh"
              /\ sent[r].to = idx
              /\ recv[r].doErr = NoErr
              /\ recv[r].status = StatusOK
              /\ recv[r].body = cert

\* C7: when every candidate's login returns 403, enrollment fails with the
\* exhausted-candidates error, the process ends with a non-zero status and
\* <prefix>-cert.pub is neither removed nor written.
C7_All403ExhaustsAndKeepsCertFile ==
    ( /\ Exited
      /\ Enrolled
      /\ \A c \in 1..targetUrls : server[c].login = "s403" )
    => /\ enrollErr = ErrFailedCreds
       /\ exitStatus # ExitOK
       /\ certOps = << >>

\* C8: once genKeyPair has created the private key file, the file is never
\* readable by group or others while it exists: before the permission
\* change, after it, and while and after the key is written.
C8_PrivateKeyNeverReadableByOthers ==
    (privCreated /\ fs.priv.exists) =>
        /\ ~GroupOrWorldReadable(fs.priv.mode)
        /\ OwnerReadWriteOnly(fs.priv.mode)

\* C9: every certgen request to candidate i comes, within the same attempt,
\* after a login to i answered 200 with at least one cookie, and carries
\* exactly the cookies of that answer, all of them issued by candidate i.
C9_CertgenCarriesItsLoginCookies ==
    \A r \in 1..Len(sent) :
        IsCertgen(sent[r]) =>
            \E l \in 1..(r - 1) :
                /\ IsLogin(sent[l])
                /\ sent[l].to = sent[r].to
                /\ \A m \in (l + 1)..(r - 1) : ~IsLogin(sent[m])
                /\ recv[l].doErr = NoErr
                /\ recv[l].status = StatusOK
                /\ Len(recv[l].cookies) >= 1
                /\ sent[r].cookies = recv[l].cookies
                /\ \A j \in 1..Len(sent[r].cookies) :
                      sent[r].cookies[j][1] = sent[r].to

\* C9 witness: the second candidate is asked for the ssh certificate with
\* the most cookies, after the first candidate had issued cookies of its own
C9_Witness ==
    \E r \in 1..Len(sent), l \in 1..Len(recv) :
        /\ sent[r].kind = "ssh"
        /\ sent[r].to = 2
        /\ Len(sent[r].cookies) = MaxCookies
        /\ IsLogin(sent[l])
        /\ sent[l].to = 1
        /\ Len(recv[l].cookies) >= 1

\* C10: a failed write of <prefix>-cert.pub ends the process with a non-zero
\* status; status 0 with the success message comes only with the certificate
\* on disk.
C10_ExitZeroOnlyWithCertOnDisk ==
    Exited =>
        /\ (certOps # << >> /\ certOps[Len(certOps)] = "writefail")
              => exitStatus # ExitOK
        /\ (exitStatus = ExitOK /\ successLogged)
              => (fs.cert.exists /\ fs.cert.content = cert)

\* a login or ssh certgen request that ended in a transport error
TransportFailure(r) ==
    /\ sent[r].kind \in {"login", "ssh"}
    /\ recv[r].doErr # NoErr

C12_EmptyListFailsWithoutRequest ==
    targetUrls = 0 =>
        /\ pc \in {"enroll", "afterLoop", "checkCert"}
        /\ sent = << >>
        /\ inflight = 0
        /\ EnrollReturned => (enrollErr # NoErr /\ cert = Nil /\ ~success)

\* C12 witness: the call with the empty list has returned
C12_Witness == targetUrls = 0 /\ EnrollReturned /\ enrollErr = ErrFailedCreds

\* the requests of one kind sent to list position c
RequestsTo(c, kind) ==
    { r \in 1..Len(sent) : sent[r].to = c /\ sent[r].kind = kind }
\* at most one login, one x509 and one ssh request per list position, and at
\* most one request in flight
RequestsBounded ==
    /\ inflight <= 1
    /\ \A c \in 1..targetUrls, kind \in {"login", "x509", "ssh"} :
          Cardinality(RequestsTo(c, kind)) <= 1
\* the loop has ended in the success or in the exhausted outcome
LoopEnded ==
    /\ EnrollReturned
    /\ \/ success /\ enrollErr = NoErr
       \/ ~success /\ enrollErr = ErrFailedCreds

\* C13: every network call returning, the failover loop always ends, in the
\* success or in the exhausted outcome, and all along each list position got
\* at most one login, one x509 and one ssh request, one request at a time.
C13_TerminatesWithBoundedRequests == ([]RequestsBounded) /\ (<>LoopEnded)

\* C13 witness: the loop ended at the second candidate after all three
\* requests went to the first and to the second
C13_Witness ==
    /\ LoopEnded
    /\ success
    /\ idx = 2
    /\ Len(sent) = 6
    /\ inflight = 0

\* the config file is missing, unreadable, unparsable or names no URL
ConfigInvalid == config \in ConfigOutcomes \ {"ok"}
\* the errors genKeyPair returns to main
KeyGenErrors == {"rsa.GenerateKey", "os.Create", "Chmod", "pem.Encode", "WriteFile"}
KeyGenFailed == Exited /\ fatalErr \in KeyGenErrors
NoNetworkActivity == sent = << >> /\ recv = << >> /\ inflight = 0

\* C14: an invalid configuration, and a failed key pair generation, end the
\* process with a non-zero status and without any network request; an invalid
\* configuration also without any removal or write of a key file.
C14_FatalBeforeNetwork ==
    /\ ConfigInvalid =>
          /\ Exited
          /\ exitStatus # ExitOK
          /\ NoNetworkActivity
          /\ keyOps = << >>
          /\ ~privCreated
    /\ KeyGenFailed =>
          /\ exitStatus # ExitOK
          /\ NoNetworkActivity

\* C14 witness: a config file without URLs ended a run that had key files
\* from an earlier run in place
C14_Witness ==
    /\ config = "nourls"
    /\ Exited
    /\ exitStatus = ExitPanic
    /\ fs.priv.exists /\ fs.pub.exists

\* C15: genKeyPair is idempotent in effect: whatever files were at the path,
\* each successful call in a row returns a key pair and leaves the private
\* key file in place with mode 0600 exactly (so the bits after the second
\* call are those after the first, owner-only) and the public key file in
\* place at <path>.pub.
C15_KeyPairIdempotent ==
    KeyPairReturned =>
        /\ calls >= 1
        /\ signer = NewKey
        /\ fs.priv.exists
        /\ fs.priv.mode = Mode0600
        /\ OwnerReadWriteOnly(fs.priv.mode)
        /\ fs.priv.content = Data("privkey", 0, signer)
        /\ fs.pub.exists
        /\ fs.pub.content = Data("pubkey", 0, signer)

\* C15 witness: the second call in a row has returned without error
C15_Witness ==
    /\ KeyPairReturned
    /\ calls = 2
    /\ fs.priv.mode = Mode0600
    /\ fs.pub.exists

\* a login call has returned: client.Do answered a login request
SomeLoginReturned == \E r \in 1..Len(recv) : IsLogin(sent[r])

\* C16: once the login step for a candidate has returned, on whatever path,
\* no state of the run still holds the unwiped password.
C16_PasswordWipedAfterLogin == SomeLoginReturned => password # "held"

\* this run's public key is what <prefix>.pub holds
NewKeyPairStored == fs.pub.exists /\ fs.pub.content = Data("pubkey", 0, NewKey)

\* C17: at exit, a certificate file at <prefix>-cert.pub was issued in this
\* run for the public key stored at <prefix>.pub; a run never ends with a new
\* key pair next to the certificate of an earlier one.  (Stated for the runs
\* that stored their key pair; a run that ends before genKeyPair leaves the
\* directory as it found it.)
C17_CertMatchesKeyAtExit ==
    (Exited /\ NewKeyPairStored /\ fs.cert.exists) =>
        /\ fs.cert.content.kind = "sshcert"
        /\ fs.cert.content.from \in 1..targetUrls
        /\ fs.cert.content.key = NewKey

\* main is at, or past, the write of <prefix>-cert.pub
CertWriteReached == pc = "writeCert" \/ Len(certOps) >= 2
\* ioutil.WriteFile(certPath, ...) returned without error
CertWritten == Len(certOps) >= 2 /\ certOps[2] = "write"
\* b is the body of a 200 answer to an ssh certgen request sent to a candidate
\* whose login, in the same attempt, was answered 200 with a cookie
IssuedSshBody(b) ==
    \E r \in 1..Len(recv) :
        /\ sent[r].kind = "ssh"
        /\ recv[r].doErr = NoErr
        /\ recv[r].status = StatusOK
        /\ recv[r].body = b
        /\ \E l \in 1..(r - 1) :
              /\ IsLogin(sent[l])
              /\ sent[l].to = sent[r].to
              /\ recv[l].doErr = NoErr
              /\ recv[l].status = StatusOK
              /\ Len(recv[l].cookies) >= 1

\* C18: what the run writes to <prefix>-cert.pub is the body of a 200 answer
\* to the ssh certgen request of a candidate whose login gave a session in
\* this run: the bytes handed to the write are such a body, a write that
\* succeeds leaves exactly them in the file, and the file never holds a nil
\* certificate, x509 bytes or the body of a non-200 answer.
C18_WrittenCertIsIssuedSshBody ==
    /\ CertWriteReached =>
          /\ cert # Nil
          /\ cert.kind = "sshcert"
          /\ IssuedSshBody(cert)
    /\ CertWritten => (fs.cert.exists /\ fs.cert.content = cert)
    /\ fs.cert.exists => fs.cert.content.kind \notin {"nil", "x509cert", "errbody"}

\* C18 witness: the certificate of the second candidate is on disk
C18_Witness ==
    /\ Exited
    /\ CertWritten
    /\ fs.cert.content = Data("sshcert", 2, NewKey)

====
